---- MODULE Spec2Model ----
(***************************************************************************)
(* Model of read-scytl-data.cpp: CScytlReader::Read and its four sheet     *)
(* extractors, walking an already parsed spreadsheet-XML tree.             *)
(*                                                                         *)
(* The tree is modelled as records:                                        *)
(*   cell  = [style, merge, hasData, type, text]                           *)
(*           style/type = the attribute's value, NoAttr when absent        *)
(*           merge      = <<>> (no s:MergeAcross) or <<n>>                 *)
(*           text       = the datum's text as a sequence of symbols;       *)
(*                        NoText (GetText() == NULL) when it has none      *)
(*   row   = sequence of cells, table = sequence of rows                   *)
(*   sheet = [name, hasTable, rows]                                        *)
(* A symbol is a one-character string, or a word standing for a run of     *)
(* letters (a word is never a digit, a sign, a dot, a blank or a percent). *)
(*                                                                         *)
(* Every extractor returns [ret, ub, ...]: ret is the int the C++ function *)
(* returns, ub is TRUE when the walk reached undefined behaviour (a member *)
(* call on a NULL element, strcmp(NULL, ..), std::string from NULL).  The  *)
(* actions of Read resolve ub nondeterministically over UBOutcomes.        *)
(***************************************************************************)
EXTENDS Integers, Sequences, FiniteSets, TLC

VARIABLES doc, pc, ws, documentProperties, tableOfContents, regionProfiles,
          electionResults, cout, exitCode

vars == <<doc, pc, ws, documentProperties, tableOfContents, regionProfiles,
          electionResults, cout, exitCode>>

----------------------------------------------------------------------------
(* Tree access and text conversion                                         *)

NoAttr == "<absent>"
NoText == <<>>

\* what a run that reached undefined behaviour can do: die (SIGSEGV, abort
\* on the uncaught std::logic_error) or come back with the failure value
UBOutcomes == {"crash", "fail"}

Digits == {"0", "1", "2", "3", "4", "5", "6", "7", "8", "9"}

DigitVal(c) ==
  CASE c = "0" -> 0 [] c = "1" -> 1 [] c = "2" -> 2 [] c = "3" -> 3
    [] c = "4" -> 4 [] c = "5" -> 5 [] c = "6" -> 6 [] c = "7" -> 7
    [] c = "8" -> 8 [] c = "9" -> 9

RECURSIVE SkipSpace(_, _)
SkipSpace(s, i) ==
  IF i <= Len(s) /\ s[i] = " " THEN SkipSpace(s, i + 1) ELSE i

RECURSIVE ScanDigits(_, _, _, _)
ScanDigits(s, i, n, acc) ==
  IF i <= Len(s) /\ s[i] \in Digits
  THEN ScanDigits(s, i + 1, n + 1, acc * 10 + DigitVal(s[i]))
  ELSE [pos |-> i, n |-> n, val |-> acc]

\* an optional sign at s[i]: the index after it, and whether it is a minus
AfterSign(s, i) == IF i <= Len(s) /\ s[i] \in {"-", "+"} THEN i + 1 ELSE i
MinusAt(s, i) == i <= Len(s) /\ s[i] = "-"

IntResult(neg, d) ==
  [ok |-> d.n > 0, val |-> IF neg THEN 0 - d.val ELSE d.val]

ToIntFrom(s, i) ==
  IntResult(MinusAt(s, i), ScanDigits(s, AfterSign(s, i), 0, 0))

\* XMLUtil::ToInt: sscanf(str, "%d", &v) == 1 (blanks skipped, optional
\* sign, at least one digit, whatever follows is left unread)
ToInt(s) == ToIntFrom(s, SkipSpace(s, 1))

\* XMLElement::QueryIntText: XML_NO_TEXT_NODE without text, else ToInt
QueryIntText(data) ==
  IF data.text = NoText THEN [ok |-> FALSE, val |-> 0] ELSE ToInt(data.text)

\* XMLElement::QueryIntAttribute("s:MergeAcross", &m) on m initialised to 0
QueryIntAttribute(cell) ==
  IF cell.merge = <<>> THEN 0 ELSE cell.merge[1]

\* the digits after the integer part ip: a dot and more digits, or nothing
Fraction(s, ip) ==
  IF ip.pos <= Len(s) /\ s[ip.pos] = "."
  THEN ScanDigits(s, ip.pos + 1, 0, ip.val)
  ELSE [pos |-> ip.pos, n |-> 0, val |-> ip.val]

\* rest = index of the first unread symbol; val = [neg, the digits read as
\* one integer, the number of decimals]
DoubleResult(neg, ip, fp) ==
  [fail |-> ip.n + fp.n = 0,
   rest |-> fp.pos,
   val |-> [neg |-> neg, digits |-> fp.val, decimals |-> fp.n]]

DoubleFromInt(s, neg, ip) == DoubleResult(neg, ip, Fraction(s, ip))

DoubleFrom(s, i) ==
  DoubleFromInt(s, MinusAt(s, i), ScanDigits(s, AfterSign(s, i), 0, 0))

\* istringstream >> double: blanks skipped, optional sign, digits with at
\* most one dot, at least one digit
ReadDouble(s) == DoubleFrom(s, SkipSpace(s, 1))

\* std::string::npos / SIZE_MAX; TLC's integers are 32 bits wide, so the
\* largest of them stands for it (it is only compared with lengths)
Npos == 2147483647

\* size_t subtraction a - b, wrapping below zero
SizeSub(a, b) == IF a >= b THEN a - b ELSE Npos - (b - a) + 1

\* std::string::substr(0, count): count is clamped to the length
Substr0(s, count) ==
  IF count >= Len(s) THEN s ELSE SubSeq(s, 1, count)

----------------------------------------------------------------------------
(* readDocumentProperties: dp = [present, Title, Author, Created], each    *)
(* child <<>> (absent) or <<text>>                                         *)

readDocumentProperties(dp, props) ==
  IF ~dp.present THEN [ret |-> 1, ub |-> FALSE, props |-> props]
  ELSE IF dp.Title = <<>> THEN [ret |-> 1, ub |-> FALSE, props |-> props]
  ELSE IF dp.Title[1] = NoText THEN [ret |-> 1, ub |-> TRUE, props |-> props]
  ELSE LET p1 == [props EXCEPT !.Title = dp.Title[1]] IN
  IF dp.Author = <<>> THEN [ret |-> 1, ub |-> FALSE, props |-> p1]
  ELSE IF dp.Author[1] = NoText THEN [ret |-> 1, ub |-> TRUE, props |-> p1]
  ELSE LET p2 == [p1 EXCEPT !.Author = dp.Author[1]] IN
  IF dp.Created = <<>> THEN [ret |-> 1, ub |-> FALSE, props |-> p2]
  ELSE IF dp.Created[1] = NoText THEN [ret |-> 1, ub |-> TRUE, props |-> p2]
  ELSE [ret |-> 0, ub |-> FALSE,
        props |-> [p2 EXCEPT !.Created = dp.Created[1]]]

----------------------------------------------------------------------------
(* readTableOfContentsWorksheet                                            *)

\* the end of an iteration of the row loop, page being QueryIntText's result
tocEntry(page, cell2) ==
  IF ~page.ok THEN [act |-> "skip"]
  ELSE IF cell2.text = NoText THEN [act |-> "ub"]
  ELSE [act |-> "push", entry |-> <<page.val, cell2.text>>]

\* one iteration of the row loop: "skip" (continue), "push" or "ub"
tocRow(row) ==
  IF Len(row) < 2 THEN [act |-> "skip"]
  ELSE LET cell1 == row[1]
           cell2 == row[2]
       IN IF cell1.style = NoAttr \/ cell1.style # "Page" THEN [act |-> "skip"]
          ELSE IF ~cell1.hasData \/ ~cell2.hasData THEN [act |-> "skip"]
          ELSE IF cell1.type = NoAttr THEN [act |-> "ub"]
          ELSE IF cell1.type # "Number" THEN [act |-> "skip"]
          ELSE IF cell2.type = NoAttr THEN [act |-> "ub"]
          ELSE IF cell2.type # "String" THEN [act |-> "skip"]
          ELSE tocEntry(QueryIntText(cell1), cell2)

RECURSIVE tocRows(_, _, _)
\* the row loop goes on after an iteration that ended as r
tocRowsNext(r, rows, i, toc) ==
  IF r.act = "ub" THEN [ret |-> 1, ub |-> TRUE, toc |-> toc]
  ELSE tocRows(rows, i + 1, IF r.act = "push" THEN Append(toc, r.entry) ELSE toc)

tocRows(rows, i, toc) ==
  IF i > Len(rows) THEN [ret |-> 0, ub |-> FALSE, toc |-> toc]
  ELSE tocRowsNext(tocRow(rows[i]), rows, i, toc)

\* sheets[w] is the worksheet ws points at; w > Len(sheets) is ws == NULL
readTableOfContentsWorksheet(sheets, w, toc) ==
  IF w > Len(sheets) THEN [ret |-> 1, ub |-> TRUE, toc |-> toc]
  ELSE IF ~sheets[w].hasTable THEN [ret |-> 1, ub |-> FALSE, toc |-> toc]
  ELSE tocRows(sheets[w].rows, 1, toc)

----------------------------------------------------------------------------
(* readRegisteredVotersWorksheet                                           *)

RegisteredVotersCol == <<"Registered Voters">>
BallotsCastCol == <<"Ballots Cast">>
VoterTurnoutCol == <<"Voter Turnout">>

\* CRegionProfile profile; the std::string starts empty, the two ints and
\* the double start uninitialised: <<>> until assigned, then <<value>>
NewProfile ==
  [RegionName |-> <<>>, RegisteredVoters |-> <<>>, BallotsCast |-> <<>>,
   VoterTurnout |-> <<>>]

\* the header loop over the cells of the first row, from cell k on
RECURSIVE rvHeader(_, _, _)
rvHeader(row, k, header) ==
  IF k > Len(row) THEN [ub |-> FALSE, header |-> header]
  ELSE LET cell == row[k] IN
       IF ~cell.hasData THEN rvHeader(row, k + 1, header)
       ELSE IF cell.type = NoAttr THEN [ub |-> TRUE, header |-> header]
       ELSE IF cell.type # "String" THEN rvHeader(row, k + 1, header)
       ELSE IF cell.text = NoText THEN [ub |-> TRUE, header |-> header]
       ELSE rvHeader(row, k + 1, Append(header, cell.text))

\* buf >> profile.VoterTurnout; fail(); peek(); eof() on the stream buf
turnoutRead(r, buf) ==
  IF r.fail THEN [ret |-> 1, val |-> r.val]
  ELSE IF r.rest <= Len(buf) THEN [ret |-> 1, val |-> r.val]
  ELSE [ret |-> 0, val |-> r.val]

turnoutStream(buf) == turnoutRead(ReadDouble(buf), buf)

\* the "Voter Turnout" branch on turnout_str: drop the last two characters,
\* read a double, and require the whole remainder to have been read
parseTurnout(turnout_str) ==
  turnoutStream(Substr0(turnout_str, SizeSub(Len(turnout_str), 2)))

UnrecognizedColumn(name) ==
  <<"diag", "Error: unrecognized column name in Registered Voters worksheet",
    name>>

\* what the body of the inner loop comes to: return r (0 = go on)
rvStop(r, u, profile) ==
  [ret |-> r, ub |-> u, profile |-> profile, diag |-> <<>>]

\* QueryIntText(&profile.<field>) having given q
rvInt(q, profile, field) ==
  IF ~q.ok THEN rvStop(1, FALSE, profile)
  ELSE rvStop(0, FALSE, [profile EXCEPT ![field] = <<q.val>>])

\* the turnout having parsed as t
rvTurnout(t, profile) ==
  IF t.ret # 0 THEN rvStop(1, FALSE, profile)
  ELSE rvStop(0, FALSE, [profile EXCEPT !.VoterTurnout = <<t.val>>])

\* a lenient variant of rvCellOther: an unknown column is passed over
rvCellLenient(cell, name, profile) == rvStop(0, FALSE, profile)

\* the last branch of the dispatch: the name, style and type are none of
\* the three combinations the code accepts
rvCellOther(cell, name, profile) ==
  [ret |-> 1, ub |-> FALSE, profile |-> profile,
   diag |-> <<UnrecognizedColumn(name)>>]

\* the body of the inner loop for one (cell, header name) pair
rvCell(cell, name, profile) ==
  LET style == cell.style
      type == IF cell.hasData THEN cell.type ELSE NoAttr
  IN IF name = RegisteredVotersCol /\ style = "VoteCount" /\ type = "Number"
     THEN rvInt(QueryIntText(cell), profile, "RegisteredVoters")
     ELSE IF name = BallotsCastCol /\ style = "VoteCount" /\ type = "Number"
     THEN rvInt(QueryIntText(cell), profile, "BallotsCast")
     ELSE IF name = VoterTurnoutCol /\ style = "VoteCount" /\ type = "String"
     THEN IF cell.text = NoText THEN rvStop(1, TRUE, profile)
          ELSE rvTurnout(parseTurnout(cell.text), profile)
     ELSE rvCellOther(cell, name, profile)

RECURSIVE rvCells(_, _, _, _, _)
\* the inner loop goes on after a body that came to r
rvCellsNext(r, row, k, header, h) ==
  IF r.ub \/ r.ret # 0 THEN r
  ELSE rvCells(row, k + 1, header, h + 1, r.profile)

\* the inner loop: cell k of the row against header entry h, in lock step,
\* then the check that both ran out together
rvCells(row, k, header, h, profile) ==
  IF k <= Len(row) /\ h <= Len(header)
  THEN rvCellsNext(rvCell(row[k], header[h], profile), row, k, header, h)
  ELSE [ret |-> IF k <= Len(row) \/ h <= Len(header) THEN 1 ELSE 0,
        ub |-> FALSE, profile |-> profile, diag |-> <<>>]

\* one data row: the region name from the first cell, then the inner loop
rvRow(row, header) ==
  LET cell == IF Len(row) >= 1 THEN <<row[1]>> ELSE <<>>
      type == IF cell # <<>> /\ cell[1].hasData THEN cell[1].type ELSE NoAttr
      named == type # NoAttr /\ type = "String"
      k == IF cell # <<>> THEN 2 ELSE 1
      h == IF Len(header) >= 1 THEN 2 ELSE 1
  IN IF named /\ cell[1].text = NoText
     THEN rvStop(1, TRUE, NewProfile)
     ELSE rvCells(row, k, header, h,
                  IF named THEN [NewProfile EXCEPT !.RegionName = cell[1].text]
                  ELSE NewProfile)

RECURSIVE rvRows(_, _, _, _)
\* the row loop goes on after a row that came to r
rvRowsNext(r, rows, i, header, acc) ==
  IF r.ub \/ r.ret # 0
  THEN [ret |-> r.ret, ub |-> r.ub, regions |-> acc.regions,
        diag |-> acc.diag \o r.diag]
  ELSE rvRows(rows, i + 1, header,
              [acc EXCEPT !.regions = Append(@, r.profile)])

rvRows(rows, i, header, acc) ==
  IF i > Len(rows) THEN acc
  ELSE rvRowsNext(rvRow(rows[i], header), rows, i, header, acc)

\* the data rows, the header row having been read as hd
rvTable(hd, rows, regions) ==
  IF hd.ub THEN [ret |-> 1, ub |-> TRUE, regions |-> regions, diag |-> <<>>]
  ELSE rvRows(rows, 2, hd.header,
              [ret |-> 0, ub |-> FALSE, regions |-> regions, diag |-> <<>>])

readRegisteredVotersWorksheet(sheets, w, regions) ==
  IF w > Len(sheets)
  THEN [ret |-> 1, ub |-> TRUE, regions |-> regions, diag |-> <<>>]
  ELSE IF ~sheets[w].hasTable
  THEN [ret |-> 1, ub |-> FALSE, regions |-> regions, diag |-> <<>>]
  ELSE rvTable(IF Len(sheets[w].rows) >= 1
               THEN rvHeader(sheets[w].rows[1], 1, <<>>)
               ELSE [ub |-> FALSE, header |-> <<>>],
               sheets[w].rows, regions)

----------------------------------------------------------------------------
(* readElectionResultsWorksheet                                            *)

BlankHeader == [ColumnName |-> <<>>, CandidateName |-> <<>>]

\* election.Header.resize(n)
Resize(n) == [j \in 1..n |-> BlankHeader]

\* CElection election; as constructed
NewElection == [ElectionName |-> <<>>, Header |-> <<>>, Results |-> <<>>]

\* the title row: [ret, ub, election]
electionTitle(rows) ==
  LET cell == IF Len(rows) >= 1 /\ Len(rows[1]) >= 1 THEN <<rows[1][1]>>
              ELSE <<>>
      data == cell # <<>> /\ cell[1].hasData
      style == IF cell # <<>> THEN cell[1].style ELSE NoAttr
      type == IF data THEN cell[1].type ELSE NoAttr
  IN IF style # NoAttr /\ style = "headerLbl" /\ type # NoAttr /\ type = "String"
     THEN IF cell[1].text = NoText
          THEN [ret |-> 1, ub |-> TRUE, election |-> NewElection]
          ELSE [ret |-> 0, ub |-> FALSE,
                election |-> [ElectionName |-> cell[1].text,
                              Header |-> Resize(QueryIntAttribute(cell[1]) + 1),
                              Results |-> <<>>]]
     ELSE [ret |-> 1, ub |-> FALSE, election |-> NewElection]

\* the inner loop of the candidate row: i counts up to mergeacross, the
\* iterator it stops at the end of the header
RECURSIVE candSpan(_, _, _, _, _)
candSpan(header, it, i, mergeacross, cell) ==
  IF i <= mergeacross /\ it <= Len(header)
  THEN candSpan(IF cell.hasData /\ cell.text # NoText
                THEN [header EXCEPT ![it].CandidateName = cell.text]
                ELSE header,
                it + 1, i + 1, mergeacross, cell)
  ELSE [header |-> header, it |-> it]

RECURSIVE candCells(_, _, _, _)
\* the outer loop goes on after the inner loop came to s
candCellsNext(s, row, k) == candCells(row, k + 1, s.header, s.it)

\* the outer loop of the candidate row over the real cells, from cell k on,
\* then the check that cells and header ran out together
candCells(row, k, header, it) ==
  IF k <= Len(row) /\ it <= Len(header)
  THEN candCellsNext(candSpan(header, it, 0, QueryIntAttribute(row[k]), row[k]),
                     row, k)
  ELSE [ret |-> IF k <= Len(row) \/ it <= Len(header) THEN 1 ELSE 0,
        header |-> header]

\* the loop of the column-name row, then the same check
RECURSIVE columnCells(_, _, _, _)
columnCells(row, k, header, it) ==
  IF k <= Len(row) /\ it <= Len(header)
  THEN LET cell == row[k]
           type == IF cell.hasData THEN cell.type ELSE NoAttr
       IN IF type # NoAttr /\ type = "String" /\ cell.text # NoText
          THEN columnCells(row, k + 1,
                           [header EXCEPT ![it].ColumnName = cell.text], it + 1)
          ELSE [ret |-> 1, header |-> header]
  ELSE [ret |-> IF k <= Len(row) \/ it <= Len(header) THEN 1 ELSE 0,
        header |-> header]

RECURSIVE voteCells(_, _, _)
\* the loop goes on after QueryIntText(&value) gave q
voteCellsNext(q, row, k, data) ==
  IF ~q.ok THEN [ret |-> 1, data |-> data]
  ELSE voteCells(row, k + 1, Append(data, q.val))

\* the loop over the vote-count cells of a data row, from cell k on
voteCells(row, k, data) ==
  IF k > Len(row) THEN [ret |-> 0, data |-> data]
  ELSE LET cell == row[k]
           style == cell.style
           type == IF cell.hasData THEN cell.type ELSE NoAttr
       IN IF style # NoAttr /\ style = "VoteCount"
             /\ type # NoAttr /\ type = "Number"
          THEN voteCellsNext(QueryIntText(cell), row, k, data)
          ELSE [ret |-> 1, data |-> data]

\* a variant of tupleWidthOk: the label column is counted as data
tupleWidthOkNoLabel(tuple, election) ==
  Len(tuple.Data) = Len(election.Header)

\* tuple.Data.size() + 1 != election.Header.size() is what rejects the row
tupleWidthOk(tuple, election) ==
  Len(tuple.Data) + 1 = Len(election.Header)

\* the end of a data row whose vote counts were read as v
dataRowEnd(label, v, election) ==
  IF v.ret # 0
  THEN [ret |-> 1, ub |-> FALSE, tuple |-> [Label |-> label, Data |-> v.data]]
  ELSE IF ~tupleWidthOk([Label |-> label, Data |-> v.data], election)
  THEN [ret |-> 1, ub |-> FALSE, tuple |-> [Label |-> label, Data |-> v.data]]
  ELSE [ret |-> 0, ub |-> FALSE, tuple |-> [Label |-> label, Data |-> v.data]]

\* one data row: [ret, ub, tuple]
dataRow(row, election) ==
  LET cell == IF Len(row) >= 1 THEN <<row[1]>> ELSE <<>>
      data == cell # <<>> /\ cell[1].hasData
      type == IF data THEN cell[1].type ELSE NoAttr
      blank == [Label |-> <<>>, Data |-> <<>>]
  IN IF type # NoAttr /\ type = "String"
     THEN IF cell[1].text = NoText
          THEN [ret |-> 1, ub |-> TRUE, tuple |-> blank]
          ELSE dataRowEnd(cell[1].text, voteCells(row, 2, <<>>), election)
     ELSE [ret |-> 1, ub |-> FALSE, tuple |-> blank]

RECURSIVE dataRows(_, _, _)
\* the row loop goes on after a row that came to r
dataRowsNext(r, rows, i, election) ==
  IF r.ub \/ r.ret # 0
  THEN [ret |-> r.ret, ub |-> r.ub, election |-> election]
  ELSE dataRows(rows, i + 1, [election EXCEPT !.Results = Append(@, r.tuple)])

dataRows(rows, i, election) ==
  IF i > Len(rows) THEN [ret |-> 0, ub |-> FALSE, election |-> election]
  ELSE dataRowsNext(dataRow(rows[i], election), rows, i, election)

\* row i of the table, <<>> when the row pointer is NULL
RowAt(rows, i) == IF i <= Len(rows) THEN rows[i] ELSE <<>>

\* after the column-name row, read as n
afterColumns(n, election, rows) ==
  IF n.ret # 0
  THEN [ret |-> 1, ub |-> FALSE, election |-> [election EXCEPT !.Header = n.header]]
  \* row = row->NextSiblingElement() on a NULL row
  ELSE IF Len(rows) < 3
  THEN [ret |-> 1, ub |-> TRUE, election |-> [election EXCEPT !.Header = n.header]]
  ELSE dataRows(rows, 4, [election EXCEPT !.Header = n.header])

\* after the candidate row, read as c
afterCandidates(c, election, rows) ==
  IF c.ret # 0
  THEN [ret |-> 1, ub |-> FALSE, election |-> [election EXCEPT !.Header = c.header]]
  \* row = row->NextSiblingElement() on a NULL row
  ELSE IF Len(rows) < 2
  THEN [ret |-> 1, ub |-> TRUE, election |-> [election EXCEPT !.Header = c.header]]
  ELSE afterColumns(columnCells(RowAt(rows, 3), 1, c.header, 1),
                    election, rows)

\* after the title row, read as t
afterTitle(t, rows) ==
  IF t.ub \/ t.ret # 0 THEN t
  ELSE afterCandidates(candCells(RowAt(rows, 2), 1, t.election.Header, 1),
                       t.election, rows)

readElectionResultsWorksheet(sheet) ==
  IF ~sheet.hasTable THEN [ret |-> 1, ub |-> FALSE, election |-> NewElection]
  ELSE afterTitle(electionTitle(sheet.rows), sheet.rows)

----------------------------------------------------------------------------
(* CScytlReader::Read and main                                             *)

NextSiblingElement(w) == w + 1

Diag(msg) == <<"diag", msg>>

\* how a call that returned r goes on
Outcomes(r) ==
  IF r.ub THEN UBOutcomes ELSE IF r.ret = 0 THEN {"ok"} ELSE {"fail"}

\* a variant of AfterRegisteredVoters: the cursor is left on the sheet
AfterRegisteredVotersStay(w) == w

\* ws = ws->NextSiblingElement() before the election loop
AfterRegisteredVoters(w) == NextSiblingElement(w)

\* a value read from an uninitialised int or double
Indeterminate == {0, 7}

Render(field, g) == IF field = <<>> THEN g ELSE field[1]

HeaderText(h) ==
  IF h.CandidateName # <<>> THEN <<h.CandidateName, " - ", h.ColumnName>>
  ELSE <<h.ColumnName>>

ElectionLines(e) ==
  << <<"election", e.ElectionName>>,
     <<"header", [j \in 1..Len(e.Header) |-> HeaderText(e.Header[j])]>> >>
  \o [j \in 1..Len(e.Results) |->
        <<"tuple", e.Results[j].Label, e.Results[j].Data>>]

RECURSIVE Flatten(_)
Flatten(ss) == IF ss = <<>> THEN <<>> ELSE Head(ss) \o Flatten(Tail(ss))

\* the lines Read writes once everything has been read
DatasetLines(props, toc, regions, elections, g) ==
  << <<"Title", props.Title>>, <<"Author", props.Author>>,
     <<"Created", props.Created>> >>
  \o [j \in 1..Len(toc) |-> <<"toc", toc[j][1], toc[j][2]>>]
  \o << <<"regions">> >>
  \o [j \in 1..Len(regions) |->
        <<"region", regions[j].RegionName,
          Render(regions[j].RegisteredVoters, g),
          Render(regions[j].BallotsCast, g),
          Render(regions[j].VoterTurnout, g)>>]
  \o Flatten([j \in 1..Len(elections) |-> ElectionLines(elections[j])])

AtNull == ws > Len(doc.sheets)

\* the while loop over the worksheets stops: at NULL, or on the name
ScanEnds(name) == IF AtNull THEN TRUE ELSE doc.sheets[ws].name = name

LoadFile ==
  /\ pc = "load"
  /\ IF doc.loadOk
     THEN pc' = "root" /\ cout' = cout
     ELSE /\ pc' = "ret1"
          /\ cout' = cout \o <<Diag("XMLDocument error"), Diag("Error loading")>>
  /\ UNCHANGED <<doc, ws, documentProperties, tableOfContents, regionProfiles,
                 electionResults, exitCode>>

LocateRoot ==
  /\ pc = "root"
  /\ IF doc.hasRoot
     THEN pc' = "props" /\ cout' = cout
     ELSE /\ pc' = "ret1"
          /\ cout' = Append(cout, Diag("Couldn't find root s:Workbook node"))
  /\ UNCHANGED <<doc, ws, documentProperties, tableOfContents, regionProfiles,
                 electionResults, exitCode>>

ReadProperties ==
  /\ pc = "props"
  /\ LET r == readDocumentProperties(doc.dp, documentProperties) IN
     /\ documentProperties' = r.props
     /\ \E o \in Outcomes(r) :
          /\ pc' = IF o = "ok" THEN "scanToc"
                   ELSE IF o = "fail" THEN "ret1" ELSE "crashed"
          /\ cout' = IF o = "fail"
                     THEN Append(cout, Diag("Error reading document properties"))
                     ELSE cout
          \* ws = root->FirstChildElement("s:Worksheet")
          /\ ws' = IF o = "ok" THEN 1 ELSE ws
  /\ UNCHANGED <<doc, tableOfContents, regionProfiles, electionResults, exitCode>>

\* one turn of while (ws && strcmp(ws->Attribute("s:Name"),
\* "Table of Contents")); strcmp on a missing s:Name is undefined
ScanTableOfContents ==
  /\ pc = "scanToc"
  /\ ~ScanEnds("Table of Contents")
  /\ \E o \in IF doc.sheets[ws].name = NoAttr THEN UBOutcomes ELSE {"ok"} :
       /\ pc' = IF o = "ok" THEN "scanToc"
                ELSE IF o = "fail" THEN "ret1" ELSE "crashed"
       /\ ws' = IF o = "ok" THEN NextSiblingElement(ws) ELSE ws
       /\ cout' = IF o = "fail"
                  THEN Append(cout, Diag("Error reading table of contents"))
                  ELSE cout
  /\ UNCHANGED <<doc, documentProperties, tableOfContents, regionProfiles,
                 electionResults, exitCode>>

ReadTableOfContents ==
  /\ pc = "scanToc"
  /\ ScanEnds("Table of Contents")
  /\ LET r == readTableOfContentsWorksheet(doc.sheets, ws, tableOfContents) IN
     /\ tableOfContents' = r.toc
     /\ \E o \in Outcomes(r) :
          /\ pc' = IF o = "ok" THEN "scanRV"
                   ELSE IF o = "fail" THEN "ret1" ELSE "crashed"
          /\ cout' = IF o = "fail"
                     THEN Append(cout, Diag("Error reading table of contents"))
                     ELSE cout
  /\ UNCHANGED <<doc, ws, documentProperties, regionProfiles, electionResults,
                 exitCode>>

\* one turn of while (ws && strcmp(ws->Attribute("s:Name"),
\* "Registered Voters"))
ScanRegisteredVoters ==
  /\ pc = "scanRV"
  /\ ~ScanEnds("Registered Voters")
  /\ \E o \in IF doc.sheets[ws].name = NoAttr THEN UBOutcomes ELSE {"ok"} :
       /\ pc' = IF o = "ok" THEN "scanRV"
                ELSE IF o = "fail" THEN "ret1" ELSE "crashed"
       /\ ws' = IF o = "ok" THEN NextSiblingElement(ws) ELSE ws
       /\ cout' = IF o = "fail"
                  THEN Append(cout, Diag("Error reading registered voters worksheet"))
                  ELSE cout
  /\ UNCHANGED <<doc, documentProperties, tableOfContents, regionProfiles,
                 electionResults, exitCode>>

ReadRegisteredVoters ==
  /\ pc = "scanRV"
  /\ ScanEnds("Registered Voters")
  /\ LET r == readRegisteredVotersWorksheet(doc.sheets, ws, regionProfiles) IN
     /\ regionProfiles' = r.regions
     /\ \E o \in Outcomes(r) :
          /\ pc' = IF o = "ok" THEN "elections"
                   ELSE IF o = "fail" THEN "ret1" ELSE "crashed"
          /\ cout' = IF o = "fail"
                     THEN cout \o r.diag \o
                          <<Diag("Error reading registered voters worksheet")>>
                     ELSE cout \o r.diag
          /\ ws' = IF o = "ok" THEN AfterRegisteredVoters(ws) ELSE ws
  /\ UNCHANGED <<doc, documentProperties, tableOfContents, electionResults,
                 exitCode>>

\* one turn of the election loop
ReadElection ==
  /\ pc = "elections"
  /\ ~AtNull
  /\ LET r == readElectionResultsWorksheet(doc.sheets[ws]) IN
     \E o \in Outcomes(r) :
       /\ pc' = IF o = "ok" THEN "elections"
                ELSE IF o = "fail" THEN "ret1" ELSE "crashed"
       /\ electionResults' = IF o = "ok" THEN Append(electionResults, r.election)
                             ELSE electionResults
       /\ cout' = IF o = "fail"
                  THEN Append(cout, Diag("Error reading election results worksheet"))
                  ELSE cout
       /\ ws' = IF o = "ok" THEN NextSiblingElement(ws) ELSE ws
  /\ UNCHANGED <<doc, documentProperties, tableOfContents, regionProfiles,
                 exitCode>>

\* the election loop has run off the end: print the dataset, return 0
Output ==
  /\ pc = "elections"
  /\ AtNull
  /\ \E g \in Indeterminate :
       cout' = cout \o DatasetLines(documentProperties, tableOfContents,
                                    regionProfiles, electionResults, g)
  /\ pc' = "ret0"
  /\ UNCHANGED <<doc, ws, documentProperties, tableOfContents, regionProfiles,
                 electionResults, exitCode>>

\* main, after fin.Read() has returned
MainExit ==
  /\ pc \in {"ret0", "ret1"}
  /\ pc' = "exit"
  /\ exitCode' = IF pc = "ret1" THEN <<1>> ELSE <<0>>
  /\ cout' = IF pc = "ret1" THEN Append(cout, Diag("Error reading from"))
             ELSE cout
  /\ UNCHANGED <<doc, ws, documentProperties, tableOfContents, regionProfiles,
                 electionResults>>

Next ==
  \/ LoadFile
  \/ LocateRoot
  \/ ReadProperties
  \/ ScanTableOfContents
  \/ ReadTableOfContents
  \/ ScanRegisteredVoters
  \/ ReadRegisteredVoters
  \/ ReadElection
  \/ Output
  \/ MainExit

\* the reader as constructed, about to Read the document d
Start(d) ==
  /\ doc = d
  /\ pc = "load"
  /\ ws = 0
  /\ documentProperties = [Title |-> <<>>, Author |-> <<>>, Created |-> <<>>]
  /\ tableOfContents = <<>>
  /\ regionProfiles = <<>>
  /\ electionResults = <<>>
  /\ cout = <<>>
  /\ exitCode = <<>>

----------------------------------------------------------------------------
(* The documents the reader is run on                                      *)

MaxSheets == 5
MaxTocRows == 2
MaxTocCells == 3
MaxCols == 3
MaxDataRows == 1
MaxTurnoutLen == 4
MaxMerge == 2
MaxCandCells == 2
MaxVoteRows == 2

\* all sequences over S of length lo..hi
SeqsOf(S, lo, hi) == UNION {[1..n -> S] : n \in lo..hi}

Cell(style, merge, type, text) ==
  [style |-> style, merge |-> merge, hasData |-> TRUE, type |-> type,
   text |-> text]

EmptyCell(style) ==
  [style |-> style, merge |-> <<>>, hasData |-> FALSE, type |-> NoAttr,
   text |-> NoText]

Str(word) == Cell(NoAttr, <<>>, "String", <<word>>)
Votes(text) == Cell("VoteCount", <<>>, "Number", text)
Percent(text) == Cell("VoteCount", <<>>, "String", text)

Sheet(name, rows) == [name |-> name, hasTable |-> TRUE, rows |-> rows]
NoTable(name) == [name |-> name, hasTable |-> FALSE, rows |-> <<>>]

GoodProperties ==
  [present |-> TRUE, Title |-> << <<"Primary">> >>, Author |-> << <<"SOE">> >>,
   Created |-> << <<"2012">> >>]

GoodTocSheet ==
  Sheet("Table of Contents",
        << <<Cell("Page", <<>>, "Number", <<"1">>), Str("Registered Voters")>> >>)

GoodHeaderRow ==
  <<Str("County"), Str("Registered Voters"), Str("Ballots Cast"),
    Str("Voter Turnout")>>

GoodRegionRow ==
  <<Str("Arkansas"), Votes(<<"9", "5">>), Votes(<<"1", "8">>),
    Percent(<<"2", "0", ".", "8", " ", "%">>)>>

GoodRVSheet == Sheet("Registered Voters", <<GoodHeaderRow, GoodRegionRow>>)

\* a well-formed results sheet titled name, width columns wide, one data row
TitleCell(name, width) ==
  Cell("headerLbl", <<width - 1>>, "String", <<name>>)

GoodCandidateRow(width) == [j \in 1..width |-> Cell(NoAttr, <<>>, "String", NoText)]
GoodColumnRow(width) ==
  [j \in 1..width |-> IF j = 1 THEN Str("County") ELSE Str("Total Votes")]
GoodDataRow(width) ==
  [j \in 1..width |-> IF j = 1 THEN Str("Arkansas") ELSE Votes(<<"5">>)]

GoodElectionSheet(name, width) ==
  Sheet(name, << <<TitleCell(name, width)>>, GoodCandidateRow(width),
                 GoodColumnRow(width), GoodDataRow(width)>>)

Document(dp, sheets) ==
  [loadOk |-> TRUE, hasRoot |-> TRUE, dp |-> dp, sheets |-> sheets]

\* a document that is well formed but for its Table of Contents sheet
WithToc(sheet) ==
  Document(GoodProperties,
           <<Sheet("Cover", <<>>), sheet, GoodRVSheet,
             GoodElectionSheet("Governor", 2)>>)

\* ... but for its Registered Voters sheet
WithRV(sheet) ==
  Document(GoodProperties,
           <<Sheet("Cover", <<>>), GoodTocSheet, sheet,
             GoodElectionSheet("Governor", 2)>>)

\* ... but for its one results sheet
WithElection(sheet) ==
  Document(GoodProperties,
           <<Sheet("Cover", <<>>), GoodTocSheet, GoodRVSheet, sheet>>)

(* Read as a whole: the properties block and the order of the sheets vary  *)

PropertiesPool ==
  {GoodProperties,
   [GoodProperties EXCEPT !.present = FALSE],
   [GoodProperties EXCEPT !.Title = <<>>],
   [GoodProperties EXCEPT !.Author = << NoText >>],
   [GoodProperties EXCEPT !.Created = <<>>]}

SheetPool ==
  {GoodTocSheet, NoTable("Table of Contents"), GoodRVSheet,
   NoTable("Registered Voters"),
   GoodElectionSheet("Governor", 2), GoodElectionSheet("Senator", 3),
   \* a results sheet whose data row is one vote count short
   Sheet("Mayor", << <<TitleCell("Mayor", 3)>>, GoodCandidateRow(3),
                     GoodColumnRow(3), GoodDataRow(2)>>)}

\* files that cannot be loaded or have no Workbook root, and documents whose
\* properties block varies
ReadDocs ==
  {[loadOk |-> FALSE, hasRoot |-> FALSE, dp |-> GoodProperties, sheets |-> <<>>],
   [loadOk |-> TRUE, hasRoot |-> FALSE, dp |-> GoodProperties, sheets |-> <<>>]}
  \cup {Document(dp, <<GoodTocSheet, GoodRVSheet>>) : dp \in PropertiesPool}

Init ==
  \/ \E d \in ReadDocs : Start(d)
  \/ \E n \in 0..MaxSheets : \E ss \in [1..n -> SheetPool] :
       Start(Document(GoodProperties, ss))

Spec == Init /\ [][Next]_vars

(* The Table of Contents sheet varies                                      *)

TocCellPool ==
  {Cell("Page", <<>>, "Number", <<"1">>), Cell("Page", <<>>, "Number", <<"2">>),
   Cell("Page", <<>>, "Number", <<"x">>), Cell(NoAttr, <<>>, "Number", <<"3">>),
   Str("Governor"), Cell("Page", <<>>, "String", <<"Index">>), EmptyCell(NoAttr)}

\* what stands in a row after its second cell
ExtraCellPool == {Str("Governor"), EmptyCell(NoAttr)}

TocRowPool ==
  SeqsOf(TocCellPool, 0, 2)
  \cup {two \o more : two \in SeqsOf(TocCellPool, 2, 2),
                      more \in SeqsOf(ExtraCellPool, 1, MaxTocCells - 2)}

InitToc ==
  \E n \in 0..MaxTocRows : \E rows \in [1..n -> TocRowPool] :
    Start(WithToc(Sheet("Table of Contents", rows)))

SpecToc == InitToc /\ [][Next]_vars

(* The Registered Voters sheet varies                                      *)

HeaderNamePool ==
  {"Registered Voters", "Ballots Cast", "Voter Turnout", "Precincts Reporting"}

HeaderRows ==
  {<<Str("County")>> \o [j \in 1..Len(names) |-> Str(names[j])] :
     names \in SeqsOf(HeaderNamePool, 0, MaxCols)}

RegionRowPool ==
  {GoodRegionRow,
   [GoodRegionRow EXCEPT ![1] = Cell(NoAttr, <<>>, "Number", <<"4">>)],
   [GoodRegionRow EXCEPT ![1] = Cell(NoAttr, <<>>, "String", NoText)],
   [GoodRegionRow EXCEPT ![2] = Cell(NoAttr, <<>>, "Number", <<"9">>)],
   SubSeq(GoodRegionRow, 1, 3), SubSeq(GoodRegionRow, 1, 2),
   SubSeq(GoodRegionRow, 1, 1), <<>>}

InitRV ==
  \/ Start(WithRV(Sheet("Registered Voters", <<>>)))
  \/ \E hd \in HeaderRows : \E n \in 0..MaxDataRows :
       \E rows \in [1..n -> RegionRowPool] :
         Start(WithRV(Sheet("Registered Voters", <<hd>> \o rows)))

SpecRV == InitRV /\ [][Next]_vars

(* The text of the Voter Turnout cell varies                               *)

TurnoutAlphabet == {"2", ".", " ", "%", "x"}

InitTurnout ==
  \E n \in 1..MaxTurnoutLen : \E text \in [1..n -> TurnoutAlphabet] :
    Start(WithRV(Sheet("Registered Voters",
                       <<GoodHeaderRow,
                         [GoodRegionRow EXCEPT ![4] = Percent(text)]>>)))

SpecTurnout == InitTurnout /\ [][Next]_vars

(* The results sheet varies, one row group at a time                       *)

Widths == 1..(MaxMerge + 1)

TitleCellPool ==
  {Cell("headerLbl", m, "String", <<"Governor">>) :
     m \in {<<>>} \cup {<<n>> : n \in -1..MaxMerge}}
  \cup {Cell("Title", <<1>>, "String", <<"Governor">>),
        Cell("headerLbl", <<1>>, "Number", <<"7">>),
        Cell("headerLbl", <<1>>, "String", NoText),
        EmptyCell("headerLbl")}

TitleRowPool ==
  {<<>>} \cup {<<c>> : c \in TitleCellPool}
  \cup {<<c, Str("Extra")>> : c \in TitleCellPool}

\* the rows after a title row, well formed for the width the title gives
RestFor(title) ==
  LET w == IF title = <<>> THEN 1 ELSE QueryIntAttribute(title[1]) + 1
  IN {<<GoodCandidateRow(w), GoodColumnRow(w), GoodDataRow(w)>>,
      <<GoodCandidateRow(w), GoodColumnRow(w)>>, <<GoodCandidateRow(w)>>, <<>>}

TitleTables ==
  UNION {{<<title>> \o rest : rest \in RestFor(title)} : title \in TitleRowPool}

CandidateCellPool ==
  {Cell(NoAttr, m, "String", t) :
     m \in {<<>>} \cup {<<n>> : n \in 1..MaxMerge},
     t \in {NoText, <<"John Wolfe">>, <<"Barack Obama">>}}

\* a sheet whose title row is well formed for w columns, then the three rows
TableOf(w, cand, cols, rows) ==
  Sheet("Governor", << <<TitleCell("Governor", w)>>, cand, cols>> \o rows)

ColumnCellPool ==
  {Str("Total Votes"), Cell(NoAttr, <<>>, "String", NoText),
   Cell(NoAttr, <<>>, "Number", <<"5">>)}

\* data rows of a sheet w columns wide: a label and k vote counts, the
\* label or one vote count possibly of the wrong kind
DataRowPool(w) ==
  {<<>>}
  \cup {<<label>> \o [j \in 1..k |-> Votes(<<"5">>)] :
          label \in {Str("Arkansas"), Votes(<<"5">>),
                     Cell(NoAttr, <<>>, "String", NoText)},
          k \in 0..(w + 1)}
  \cup {<<Str("Ashley")>> \o [j \in 1..(w - 1) |-> bad] :
          bad \in {Votes(<<"x">>), Cell(NoAttr, <<>>, "Number", <<"5">>)}}

InitElection ==
  \/ Start(WithElection(NoTable("Governor")))
  \/ \E rows \in {<<>>} \cup TitleTables :
       Start(WithElection(Sheet("Governor", rows)))
  \/ \E w \in Widths : \E n \in 0..MaxCandCells :
       \E cand \in [1..n -> CandidateCellPool] :
         Start(WithElection(TableOf(w, cand, GoodColumnRow(w),
                                    <<GoodDataRow(w)>>)))
  \/ \E w \in Widths : \E n \in 0..(MaxMerge + 2) :
       \E cols \in [1..n -> ColumnCellPool] :
         Start(WithElection(TableOf(w, GoodCandidateRow(w), cols,
                                    <<GoodDataRow(w)>>)))
  \/ \E w \in Widths : \E n \in 0..MaxVoteRows :
       \E rows \in [1..n -> DataRowPool(w)] :
         Start(WithElection(TableOf(w, GoodCandidateRow(w), GoodColumnRow(w),
                                    rows)))

SpecElection == InitElection /\ [][Next]_vars

----------------------------------------------------------------------------
(* Properties                                                              *)

Success == pc = "ret0" \/ (pc = "exit" /\ exitCode = <<0>>)
ReturnedFailure == pc = "ret1" \/ (pc = "exit" /\ exitCode = <<1>>)
Stopped == pc \in {"crashed", "ret0", "ret1", "exit"}

Lines == {cout[j] : j \in 1..Len(cout)}
DiagnosticWritten == \E l \in Lines : l[1] = "diag"
DatasetWritten == \E l \in Lines : l[1] # "diag"

\* the sheets the two named lookups are meant to settle on
TocIndexes == {i \in 1..Len(doc.sheets) : doc.sheets[i].name = "Table of Contents"}
MatchedToc == CHOOSE i \in TocIndexes : \A j \in TocIndexes : i <= j
RVIndexes ==
  IF TocIndexes = {} THEN {}
  ELSE {i \in MatchedToc..Len(doc.sheets) :
          doc.sheets[i].name = "Registered Voters"}
MatchedRV == CHOOSE i \in RVIndexes : \A j \in RVIndexes : i <= j

PropertiesRead == documentProperties.Created # <<>>
TocReturned == pc \notin {"load", "root", "props", "scanToc"}
RVReturned == TocReturned /\ pc # "scanRV"
RVSucceeded == pc \in {"elections", "ret0"} \/ (pc = "exit" /\ exitCode = <<0>>)

\* the worksheet the j-th election of electionResults was read from
ElectionSheet(j) == doc.sheets[MatchedRV + j]

\* N + 1 for the merge-across count N of a title cell (0 when absent)
TitleWidth(cell) == (IF cell.merge = <<>> THEN 0 ELSE cell.merge[1]) + 1

\* C1: every Election produced has the width its title row fixed
\* (MergeAcross + 1), every tuple of its Results has len(Data) + 1 ==
\* len(Header), and every data row of its sheet became such a tuple: a sheet
\* with a data row of any other length yields no Election.
C1_TupleWidths ==
  \A j \in 1..Len(electionResults) :
    LET e == electionResults[j]
        rows == ElectionSheet(j).rows
    IN /\ Len(e.Header) = TitleWidth(rows[1][1])
       /\ \A t \in 1..Len(e.Results) :
            Len(e.Results[t].Data) + 1 = Len(e.Header)
       /\ Len(e.Results) = Len(rows) - 3
       /\ \A r \in 4..Len(rows) : Len(rows[r]) = TitleWidth(rows[1][1])

\* C1 witness: a sheet at least two columns wide was read, data row included
C1_Witness ==
  /\ Success
  /\ \E j \in 1..Len(electionResults) :
       /\ Len(electionResults[j].Header) >= 2
       /\ Len(electionResults[j].Results) >= 1

\* C2 (as claimed): once the properties are read, a document without a
\* "Table of Contents" sheet, or without a "Registered Voters" sheet at or
\* after it, makes Read return the failure value and do nothing else.
C2_MissingSheetFails ==
  (PropertiesRead /\ RVIndexes = {} /\ Stopped) => ReturnedFailure

\* C3 (as claimed): a Read that does not succeed returns failure with a
\* diagnostic written and no dataset line, and dataset lines are written
\* only by a Read that succeeds.
C3_FailClosed ==
  /\ (Stopped /\ ~Success) =>
       (ReturnedFailure /\ DiagnosticWritten /\ ~DatasetWritten)
  /\ DatasetWritten => Success

\* C4 (as claimed): every RegionProfile appended has all four fields
\* assigned from its row.
C4_AllFieldsAssigned ==
  \A j \in 1..Len(regionProfiles) :
    /\ regionProfiles[j].RegionName # <<>>
    /\ regionProfiles[j].RegisteredVoters # <<>>
    /\ regionProfiles[j].BallotsCast # <<>>
    /\ regionProfiles[j].VoterTurnout # <<>>

\* a decimal number: digits with at most one dot (blanks and a sign may
\* come first)
DecimalForm(s) ==
  LET b == AfterSign(s, SkipSpace(s, 1)) IN
  /\ \A i \in b..Len(s) : s[i] \in Digits \cup {"."}
  /\ \E i \in b..Len(s) : s[i] \in Digits
  /\ Cardinality({i \in b..Len(s) : s[i] = "."}) <= 1

\* <decimal number> followed by exactly " %"
TurnoutForm(s) ==
  /\ Len(s) >= 3
  /\ s[Len(s) - 1] = " "
  /\ s[Len(s)] = "%"
  /\ DecimalForm(SubSeq(s, 1, Len(s) - 2))

\* C5 (as claimed): a row is accepted only if its Voter Turnout text has
\* the form <decimal number> " %".
C5_TurnoutForm ==
  \A j \in 1..Len(regionProfiles) :
    TurnoutForm(doc.sheets[MatchedRV].rows[j + 1][4].text)

\* the header row of the Registered Voters sheet names, after its first
\* entry, a column that is none of the three known ones
UnknownHeader ==
  /\ Len(doc.sheets[MatchedRV].rows) >= 1
  /\ \E j \in 2..Len(doc.sheets[MatchedRV].rows[1]) :
       doc.sheets[MatchedRV].rows[1][j].text
         \notin {RegisteredVotersCol, BallotsCastCol, VoterTurnoutCol}

DataRowCount == Len(doc.sheets[MatchedRV].rows) - 1

\* C6 (as claimed): an unrecognized column name makes the extractor fail,
\* however many data rows follow the header.
C6_UnknownHeaderFails == UnknownHeader => ~RVSucceeded

\* the cell is what the code accepts under the header name
ValidFor(cell, name) ==
  /\ cell.style = "VoteCount"
  /\ cell.hasData
  /\ \/ /\ name \in {RegisteredVotersCol, BallotsCastCol}
        /\ cell.type = "Number"
        /\ \E i \in 1..Len(cell.text) : cell.text[i] \in Digits
     \/ /\ name = VoterTurnoutCol
        /\ cell.type = "String"
        /\ TurnoutForm(cell.text)

\* the first data row reaches the first unknown column through cells that
\* match their headers
ReachesUnknown ==
  LET hd == doc.sheets[MatchedRV].rows[1]
      row == doc.sheets[MatchedRV].rows[2]
      bad == {j \in 2..Len(hd) :
                hd[j].text \notin {RegisteredVotersCol, BallotsCastCol,
                                   VoterTurnoutCol}}
      first == CHOOSE j \in bad : \A k \in bad : j <= k
  IN /\ Len(row) >= first
     /\ ~(row[1].hasData /\ row[1].type = "String" /\ row[1].text = NoText)
     /\ \A k \in 2..(first - 1) : ValidFor(row[k], hd[k].text)

UnknownDiagnostic ==
  \E l \in Lines :
    /\ l[1] = "diag"
    /\ l[2] = "Error: unrecognized column name in Registered Voters worksheet"

\* C6 (amended): with an unrecognized column name in the header, a sheet
\* with at least one data row is never accepted and yields no record, the
\* first data row being rejected with the unrecognized-column diagnostic
\* when it reaches that column through matching cells; a sheet with no data
\* row is accepted, with no record.
C6_UnknownHeaderRows ==
  UnknownHeader =>
    /\ DataRowCount >= 1 => (~RVSucceeded /\ regionProfiles = <<>>)
    /\ (DataRowCount >= 1 /\ ReachesUnknown /\ RVReturned) =>
         (ReturnedFailure /\ UnknownDiagnostic)
    /\ (DataRowCount = 0 /\ RVReturned) =>
         (RVSucceeded /\ regionProfiles = <<>>)

\* C6 witness: a data row ran into the unrecognized column
C6_Witness ==
  /\ UnknownHeader
  /\ DataRowCount >= 1
  /\ ReturnedFailure
  /\ UnknownDiagnostic
  /\ regionProfiles = <<>>

\* what the claim takes for a table-of-contents row
IsTocRow(row) ==
  /\ Len(row) = 2
  /\ row[1].style = "Page"
  /\ row[1].hasData /\ row[1].type = "Number"
  /\ row[2].hasData /\ row[2].type = "String"
  /\ row[1].text # NoText
  /\ \A i \in 1..Len(row[1].text) : row[1].text[i] \in Digits

ExpectedToc ==
  LET rows == SelectSeq(doc.sheets[MatchedToc].rows, IsTocRow)
  IN [j \in 1..Len(rows) |-> <<ToInt(rows[j][1].text).val, rows[j][2].text>>]

\* C7 (as claimed): the table of contents holds, in row order, an entry for
\* exactly the rows of two cells, the first styled "Page" with an integer
\* Number datum, the second with a String datum.
C7_TocRows == TocReturned => tableOfContents = ExpectedToc

RECURSIVE SpanSum(_)
SpanSum(row) ==
  IF row = <<>> THEN 0 ELSE TitleWidth(Head(row)) + SpanSum(Tail(row))

\* C8 (as claimed): a results sheet is accepted only if the spans (M + 1)
\* of the real cells of its candidate row add up to the header width.
C8_SpansFillWidth ==
  \A j \in 1..Len(electionResults) :
    SpanSum(ElectionSheet(j).rows[2]) = Len(electionResults[j].Header)

\* the text of a sheet's title cell
TitleOf(sheet) == sheet.rows[1][1].text

\* C9: while the election loop runs and when Read has succeeded, the
\* elections read so far are exactly the worksheets after the matched
\* "Registered Voters" sheet and before the cursor, in document order; the
\* cursor never stands at or before that sheet.
C9_ElectionsFollowRV ==
  (pc = "elections" \/ Success) =>
    /\ RVIndexes # {}
    /\ ws > MatchedRV
    /\ Success => ws = Len(doc.sheets) + 1
    /\ [j \in 1..Len(electionResults) |-> electionResults[j].ElectionName]
         = [j \in 1..(ws - MatchedRV - 1) |-> TitleOf(doc.sheets[MatchedRV + j])]

\* C9 witness: a sheet precedes the table of contents and two follow the
\* registered voters
C9_Witness ==
  /\ Success
  /\ MatchedToc > 1
  /\ Len(electionResults) = 2
  /\ electionResults[1].ElectionName # electionResults[2].ElectionName

\* C10 (as claimed): a results sheet is accepted only if its title row is
\* exactly one cell, styled "headerLbl" with a String datum; the election
\* is named by its text and has N + 1 header slots.
C10_TitleRow ==
  \A j \in 1..Len(electionResults) :
    LET row == ElectionSheet(j).rows[1] IN
    /\ Len(row) = 1
    /\ row[1].style = "headerLbl"
    /\ row[1].hasData /\ row[1].type = "String"
    /\ electionResults[j].ElectionName = row[1].text
    /\ Len(electionResults[j].Header) = TitleWidth(row[1])

====
